---- MODULE Spec2Model ----
(***************************************************************************)
(* Model of alpy/api.py: the authenticated HTTP transport (API._request),  *)
(* the Entity field view (Entity.__getattr__) and the Account resource     *)
(* client.  One action per public operation; the server's response is an   *)
(* input of the action.                                                    *)
(***************************************************************************)
EXTENDS Integers, Sequences, FiniteSets, TLC

VARIABLES
    _key,       \* API._key: the credential sent with every request
    _base_url,  \* API._base_url
    accounts,   \* the Accounts the caller got from its last list_accounts
    op,         \* the operation the caller invoked, with its arguments
    call,       \* the arguments _request was called with
    wire,       \* the HTTP requests Session.request sent during the call
    response,   \* the HTTP response Session.request returned
    transport,  \* what _request returned or raised
    result,     \* what the operation returned or raised
    access      \* the last field read on a returned entity, with its outcome

vars == <<_key, _base_url, accounts, op, call, wire, response, transport, result, access>>

----------------------------------------------------------------------------
(* Bounds of the explored input space.                                     *)

\* longest JSON array the server returns
MaxLen == 2

----------------------------------------------------------------------------
(* Decoded JSON values, tagged by their Python type.                       *)

JNull == [t |-> "null"]

JStr(s) == [t |-> "str", v |-> s]

JNum(n) == [t |-> "num", v |-> n]

JBool(b) == [t |-> "bool", v |-> b]

JObj(f) == [t |-> "obj", v |-> f]

JArr(q) == [t |-> "arr", v |-> q]

\* a response body that is not JSON text
NotJSON == [t |-> "text"]

\* Python None where it is not a JSON value (an argument left out)
None == JNull

----------------------------------------------------------------------------
(* Outcomes of a call: a returned value or a raised exception.             *)

Return(v) == [kind |-> "return", value |-> v]

Raise(e) == [kind |-> "raise", exc |-> e]

HTTPError(status) == [type |-> "HTTPError", status |-> status]

ValueError(what) == [type |-> "ValueError", what |-> what]

KeyError(k) == [type |-> "KeyError", key |-> k]

TypeError == [type |-> "TypeError"]

AttributeError(name) == [type |-> "AttributeError", name |-> name]

----------------------------------------------------------------------------
(* Python string and container primitives the code relies on.              *)

Char(s, i) == SubSeq(s, i, i)

\* str.upper on the ASCII letters
UpperChar(c) ==
    CASE c = "a" -> "A" [] c = "b" -> "B" [] c = "c" -> "C" [] c = "d" -> "D"
      [] c = "e" -> "E" [] c = "f" -> "F" [] c = "g" -> "G" [] c = "h" -> "H"
      [] c = "i" -> "I" [] c = "j" -> "J" [] c = "k" -> "K" [] c = "l" -> "L"
      [] c = "m" -> "M" [] c = "n" -> "N" [] c = "o" -> "O" [] c = "p" -> "P"
      [] c = "q" -> "Q" [] c = "r" -> "R" [] c = "s" -> "S" [] c = "t" -> "T"
      [] c = "u" -> "U" [] c = "v" -> "V" [] c = "w" -> "W" [] c = "x" -> "X"
      [] c = "y" -> "Y" [] c = "z" -> "Z" [] OTHER -> c

RECURSIVE Upper(_)
Upper(s) == IF s = "" THEN "" ELSE UpperChar(Char(s, 1)) \o Upper(Tail(s))

\* str.endswith
EndsWith(s, suffix) ==
    /\ Len(s) >= Len(suffix)
    /\ SubSeq(s, Len(s) - Len(suffix) + 1, Len(s)) = suffix

\* sub in s, for strings
Substring(sub, s) ==
    \E i \in 1..(Len(s) - Len(sub) + 1) : SubSeq(s, i, i + Len(sub) - 1) = sub

Digits == {"0", "1", "2", "3", "4", "5", "6", "7", "8", "9"}

DigitVal(c) ==
    CASE c = "0" -> 0 [] c = "1" -> 1 [] c = "2" -> 2 [] c = "3" -> 3
      [] c = "4" -> 4 [] c = "5" -> 5 [] c = "6" -> 6 [] c = "7" -> 7
      [] c = "8" -> 8 [] c = "9" -> 9

DigitChar(d) == Char("0123456789", d + 1)

\* int(s) for a string of decimal digits
RECURSIVE ToInt(_)
ToInt(s) ==
    IF s = "" THEN 0
    ELSE 10 * ToInt(SubSeq(s, 1, Len(s) - 1)) + DigitVal(Char(s, Len(s)))

\* str(n) for a natural number
RECURSIVE IntStr(_)
IntStr(n) == IF n < 10 THEN DigitChar(n) ELSE IntStr(n \div 10) \o DigitChar(n % 10)

\* '{}'.format(v): the text str.format substitutes for a value
Format(v) ==
    CASE v.t = "str" -> v.v
      [] v.t = "num" -> IntStr(v.v)
      [] v.t = "null" -> "None"
      [] v.t = "bool" -> IF v.v THEN "True" ELSE "False"

\* `k in c` for a decoded JSON value c: "ok" with the answer, or TypeError
Contains(k, c) ==
    CASE c.t = "obj" -> Return(k \in DOMAIN c.v)
      [] c.t = "arr" -> Return(\E i \in DOMAIN c.v : c.v[i] = JStr(k))
      [] c.t = "str" -> Return(Substring(k, c.v))
      [] OTHER -> Raise(TypeError)

\* `c[k]` for a string key k
Subscript(c, k) ==
    CASE c.t = "obj" -> IF k \in DOMAIN c.v THEN Return(c.v[k]) ELSE Raise(KeyError(k))
      [] OTHER -> Raise(TypeError)

----------------------------------------------------------------------------
(* Transport: API._request and the library calls it makes.                 *)

\* requests.Response.raise_for_status: HTTPError for 4xx and 5xx
raise_for_status(resp) ==
    IF 400 <= resp.status /\ resp.status < 600
    THEN Raise(HTTPError(resp.status))
    ELSE Return(None)

\* requests.Response.json: the decoded body, or a decoding error
json(resp) ==
    IF resp.body = NotJSON THEN Raise(ValueError("json")) ELSE Return(resp.body)

\* APIError(error): the constructor reads error['message'] eagerly
APIError(error) ==
    LET message == Subscript(error, "message") IN
    IF message.kind = "raise" THEN message
    ELSE Raise([type |-> "APIError", args |-> message.value, error |-> error])

\* APIError.code
code(e) == Subscript(e.error, "code")

\* Opts comparing the method as given, without upper()
Opts_CaseSensitive(k, method, data) ==
    LET headers == ("X-API-KEY" :> k) IN
    IF method = "GET"
    THEN [headers |-> headers, params |-> data]
    ELSE [headers |-> headers, json |-> data]

\* the keyword arguments _request builds for Session.request
Opts(k, method, data) ==
    LET headers == ("X-API-KEY" :> k) IN
    IF Upper(method) = "GET"
    THEN [headers |-> headers, params |-> data]
    ELSE [headers |-> headers, json |-> data]

\* Session.request(method, url, **opts): the HTTP request put on the wire;
\* a keyword that is not passed sends nothing in its place
SessionRequest(method, url, opts) ==
    [method  |-> method,
     url     |-> url,
     headers |-> opts.headers,
     query   |-> IF "params" \in DOMAIN opts THEN opts.params ELSE None,
     body    |-> IF "json" \in DOMAIN opts THEN opts.json ELSE None]

\* the try/except around raise_for_status and the final return
Translate(resp) ==
    LET st == raise_for_status(resp) IN
    IF st.kind = "raise"
    THEN LET error == json(resp) IN
         IF error.kind = "raise" THEN error
         ELSE LET has == Contains("code", error.value) IN
              IF has.kind = "raise" THEN has
              ELSE IF has.value THEN APIError(error.value)
              ELSE json(resp)
    ELSE json(resp)

\* _request sending the request a second time when the first attempt failed
_request_Retry(k, base, method, path, data, resp) ==
    LET url == base \o path
        req == SessionRequest(method, url, Opts(k, method, data))
        out == Translate(resp)
    IN  [call |-> [method |-> method, path |-> path, data |-> data],
         sent |-> IF out.kind = "raise" THEN <<req, req>> ELSE <<req>>,
         resp |-> resp,
         out  |-> out]

\* API._request: the requests issued and the outcome handed to the caller
_request(k, base, method, path, data, resp) ==
    LET url == base \o path IN
    [call |-> [method |-> method, path |-> path, data |-> data],
     sent |-> <<SessionRequest(method, url, Opts(k, method, data))>>,
     resp |-> resp,
     out  |-> Translate(resp)]

API_get(k, base, path, data, resp) == _request(k, base, "GET", path, data, resp)

API_post(k, base, path, data, resp) == _request(k, base, "POST", path, data, resp)

API_patch(k, base, path, data, resp) == _request(k, base, "PATCH", path, data, resp)

API_delete(k, base, path, data, resp) == _request(k, base, "DELETE", path, data, resp)

----------------------------------------------------------------------------
(* Entity: timestamp detection and field access.                           *)

IsDigits(s) == \A i \in 1..Len(s) : Char(s, i) \in Digits

\* ISO8601YMD.match(val): re.match anchors \d{4}-\d{2}-\d{2}T at the start
\* of a string and raises TypeError for anything that is not a string
ISO8601YMD_match(val) ==
    IF val.t # "str" THEN Raise(TypeError)
    ELSE Return(/\ Len(val.v) >= 11
                /\ IsDigits(SubSeq(val.v, 1, 4))
                /\ Char(val.v, 5) = "-"
                /\ IsDigits(SubSeq(val.v, 6, 7))
                /\ Char(val.v, 8) = "-"
                /\ IsDigits(SubSeq(val.v, 9, 10))
                /\ Char(val.v, 11) = "T")

DaysIn(year, month) ==
    IF month = 2
    THEN (IF year % 4 = 0 /\ (year % 100 # 0 \/ year % 400 = 0) THEN 29 ELSE 28)
    ELSE IF month \in {4, 6, 9, 11} THEN 30 ELSE 31

\* the text after the date and the "T": HH:MM:SS, then an optional Z
IsClock(s) ==
    /\ Len(s) \in {8, 9}
    /\ IsDigits(SubSeq(s, 1, 2)) /\ Char(s, 3) = ":"
    /\ IsDigits(SubSeq(s, 4, 5)) /\ Char(s, 6) = ":"
    /\ IsDigits(SubSeq(s, 7, 8))
    /\ (Len(s) = 9 => Char(s, 9) = "Z")

\* dateutil.parser.parse on a string that starts YYYY-MM-DDT, for the forms
\* YYYY-MM-DDTHH:MM:SS and YYYY-MM-DDTHH:MM:SSZ; text it cannot read and
\* calendar fields out of range are a ValueError
parse(s) ==
    LET rest == SubSeq(s, 12, Len(s))
        year == ToInt(SubSeq(s, 1, 4))
        month == ToInt(SubSeq(s, 6, 7))
        day == ToInt(SubSeq(s, 9, 10))
    IN  IF ~IsClock(rest) THEN Raise(ValueError("parse"))
        ELSE LET hour == ToInt(SubSeq(rest, 1, 2))
                 minute == ToInt(SubSeq(rest, 4, 5))
                 second == ToInt(SubSeq(rest, 7, 8))
             IN  IF \/ month \notin 1..12
                    \/ day \notin 1..DaysIn(year, month)
                    \/ year = 0 \/ hour > 23 \/ minute > 59 \/ second > 59
                 THEN Raise(ValueError("parse"))
                 ELSE Return([t |-> "datetime",
                              year |-> year, month |-> month, day |-> day,
                              hour |-> hour, minute |-> minute, second |-> second,
                              tzinfo |-> IF Len(rest) = 9 THEN "UTC" ELSE "naive"])

\* Entity(obj)
Entity(cls, obj) == [cls |-> cls, obj |-> obj]

\* __getattr__ answering None for a field the record does not have
__getattr___AbsentIsNone(self, key) ==
    LET has == Contains(key, self.obj) IN
    IF has.kind = "raise" THEN has
    ELSE IF has.value
    THEN LET val == Subscript(self.obj, key) IN
         IF val.kind = "raise" THEN val
         ELSE IF EndsWith(key, "_at")
         THEN LET m == ISO8601YMD_match(val.value) IN
              IF m.kind = "raise" THEN m
              ELSE IF m.value THEN parse(val.value.v)
              ELSE val
         ELSE val
    ELSE Return(None)

\* Entity.__getattr__(key)
__getattr__(self, key) ==
    LET has == Contains(key, self.obj) IN
    IF has.kind = "raise" THEN has
    ELSE IF has.value
    THEN LET val == Subscript(self.obj, key) IN
         IF val.kind = "raise" THEN val
         ELSE IF EndsWith(key, "_at")
         THEN LET m == ISO8601YMD_match(val.value) IN
              IF m.kind = "raise" THEN m
              ELSE IF m.value THEN parse(val.value.v)
              ELSE val
         ELSE val
    ELSE Raise(AttributeError(key))

----------------------------------------------------------------------------
(* Resource client: API.list_accounts and Account.                         *)

\* the order in which a decoded object lists its keys
FieldOrder == <<"id", "code", "message", "created_at", "filled_at">>

\* `for o in v`: the items a list comprehension draws from a decoded value
Iterate(v) ==
    CASE v.t = "arr" -> Return(v.v)
      [] v.t = "obj" ->
           LET keys == SelectSeq(FieldOrder, LAMBDA f : f \in DOMAIN v.v)
           IN  Return([i \in DOMAIN keys |-> JStr(keys[i])])
      [] v.t = "str" -> Return([i \in 1..Len(v.v) |-> JStr(Char(v.v, i))])
      [] OTHER -> Raise(TypeError)

\* Account(obj, api): reads obj['id'] eagerly
Account(obj) ==
    LET id == Subscript(obj, "id") IN
    IF id.kind = "raise" THEN id
    ELSE Return([cls |-> "Account", obj |-> obj, account_id |-> id.value])

Construct(cls, o) == IF cls = "Account" THEN Account(o) ELSE Return(Entity(cls, o))

\* ListOf handing the entities back in reverse order
ListOf_Reversed(cls, resp) ==
    LET items == Iterate(resp) IN
    IF items.kind = "raise" THEN items
    ELSE LET made == [i \in DOMAIN items.value |-> Construct(cls, items.value[i])]
             bad == {i \in DOMAIN made : made[i].kind = "raise"}
             n == Len(items.value)
         IN  IF bad # {}
             THEN made[CHOOSE i \in bad : \A j \in bad : i <= j]
             ELSE Return([i \in DOMAIN made |-> made[n + 1 - i].value])

\* [cls(o) for o in resp]: the first constructor that raises ends the loop
ListOf(cls, resp) ==
    LET items == Iterate(resp) IN
    IF items.kind = "raise" THEN items
    ELSE LET made == [i \in DOMAIN items.value |-> Construct(cls, items.value[i])]
             bad == {i \in DOMAIN made : made[i].kind = "raise"}
         IN  IF bad # {}
             THEN made[CHOOSE i \in bad : \A j \in bad : i <= j]
             ELSE Return([i \in DOMAIN made |-> made[i].value])

\* what an operation hands back: the transport call it made and its result
Done(r, res) ==
    [call |-> r.call, sent |-> r.sent, resp |-> r.resp, transport |-> r.out,
     result |-> res]

list_accounts(k, base, resp) ==
    LET r == _request(k, base, "GET", "/api/v1/accounts", None, resp) IN
    Done(r, IF r.out.kind = "raise" THEN r.out ELSE ListOf("Account", r.out.value))

\* _fullpath leaving out the accounts segment, as get_order's path does
_fullpath_NoAccounts(self, path, v) ==
    "/api/v" \o v \o "/" \o Format(self.account_id) \o path

_fullpath(self, path, v) ==
    "/api/v" \o v \o "/accounts/" \o Format(self.account_id) \o path

Account_get(self, k, base, path, data, resp) ==
    API_get(k, base, _fullpath(self, path, "1"), data, resp)

Account_post(self, k, base, path, data, resp) ==
    API_post(k, base, _fullpath(self, path, "1"), data, resp)

Account_delete(self, k, base, path, data, resp) ==
    API_delete(k, base, _fullpath(self, path, "1"), data, resp)

list_orders(self, k, base, resp) ==
    LET r == Account_get(self, k, base, "/orders", None, resp) IN
    Done(r, IF r.out.kind = "raise" THEN r.out ELSE ListOf("Order", r.out.value))

\* order_data leaving out the arguments that are None
order_data_OmitsNone(assert_id, shares, side, type, timeinforce, limit_price, stop_price, client_order_id) ==
    LET all == [assert_id       |-> assert_id,
                shares          |-> shares,
                side            |-> side,
                type            |-> type,
                timeinforce     |-> timeinforce,
                limit_price     |-> limit_price,
                stop_price      |-> stop_price,
                client_order_id |-> client_order_id]
    IN  JObj([f \in {g \in DOMAIN all : all[g] # None} |-> all[f]])

\* the dict create_order builds from its arguments
order_data(assert_id, shares, side, type, timeinforce, limit_price, stop_price, client_order_id) ==
    JObj([assert_id       |-> assert_id,
          shares          |-> shares,
          side            |-> side,
          type            |-> type,
          timeinforce     |-> timeinforce,
          limit_price     |-> limit_price,
          stop_price      |-> stop_price,
          client_order_id |-> client_order_id])

create_order(self, k, base, assert_id, shares, side, type, timeinforce, limit_price, stop_price, client_order_id, resp) ==
    LET data == order_data(assert_id, shares, side, type, timeinforce,
                           limit_price, stop_price, client_order_id)
        r == Account_post(self, k, base, "/orders", data, resp)
    IN  Done(r, IF r.out.kind = "raise" THEN r.out
                ELSE Return(Entity("Order", r.out.value)))

get_order(self, k, base, order_id, resp) ==
    LET r == API_get(k, base,
                     "/api/v1/" \o Format(self.account_id) \o "/orders/"
                         \o Format(order_id),
                     None, resp)
    IN  Done(r, IF r.out.kind = "raise" THEN r.out
                ELSE Return(Entity("Order", r.out.value)))

get_order_by_client_order_id(self, k, base, client_order_id, resp) ==
    LET r == Account_get(self, k, base, "/orders",
                         JObj([client_order_id |-> client_order_id]), resp)
    IN  Done(r, IF r.out.kind = "raise" THEN r.out
                ELSE Return(Entity("Order", r.out.value)))

delete_order(self, k, base, order_id, resp) ==
    LET r == Account_delete(self, k, base, "/orders/" \o Format(order_id),
                            None, resp)
    IN  Done(r, IF r.out.kind = "raise" THEN r.out ELSE Return(None))

list_positions(self, k, base, resp) ==
    LET r == Account_get(self, k, base, "/positions", None, resp) IN
    Done(r, IF r.out.kind = "raise" THEN r.out ELSE ListOf("Position", r.out.value))

get_position(self, k, base, asset_id, resp) ==
    LET r == Account_get(self, k, base, "/positions/" \o Format(asset_id),
                         None, resp)
    IN  Done(r, IF r.out.kind = "raise" THEN r.out
                ELSE Return(Entity("Position", r.out.value)))

----------------------------------------------------------------------------
(* Inputs: what the caller passes and what the server answers.             *)

ApiKeys == {"k3y"}

\* os.environ.get('ALPACA_API_BASE_URL', ...) with the variable unset
DefaultBaseUrl == "https://api.alpaca.markets"

\* the spellings of the method a caller of _request passes
Methods == {"GET", "get", "Get", "POST", "post", "PATCH", "DELETE", "delete"}

Paths == {"/api/v1/accounts"}

\* the data argument of a direct transport call
DataValues == {None, JObj([symbol |-> JStr("AAPL")])}

StatusCodes == {200, 422, 500}

Timestamp == "2018-01-02T03:04:05Z"

\* records the server lists: two with an id, one without
ListedRecords ==
    {JObj([id |-> JStr("a1")]),
     JObj([id |-> JStr("acct123"), created_at |-> JStr(Timestamp)]),
     JObj([created_at |-> JStr(Timestamp)])}

SeqsUpTo(S, n) == UNION {[1..m -> S] : m \in 0..n}

Arrays == {JArr(q) : q \in SeqsUpTo(ListedRecords, MaxLen)}

\* values the server sends in an `_at` field
AtValues ==
    {JStr(Timestamp), JStr("2018-13-02T03:04:05Z"), JStr("pending"), JNull,
     JNum(5), JObj([date |-> JStr("2018-01-02")])}

OrderRecords == {JObj([id |-> JStr("o1"), filled_at |-> f]) : f \in AtValues}

ErrorBodies ==
    {JObj([code |-> JNum(40110000), message |-> JStr("insufficient buying power")]),
     JObj([code |-> JNum(40110000)]),
     JObj([message |-> JStr("not found")])}

Scalars == {JStr("bad code"), JNull}

Bodies == {NotJSON} \cup Arrays \cup OrderRecords \cup ErrorBodies \cup Scalars

Responses == [status : StatusCodes, body : Bodies]

OrderIds == {JStr("o1")}

AssetIds == {JStr("AAPL")}

ClientOrderIds == {JStr("c1")}

\* an optional argument: left out (None) or supplied
Optional(S) == {None} \cup S

Prices == {JNum(10)}

\* names a caller asks an entity for
FieldNames == {"id", "created_at", "filled_at", "symbol"}

----------------------------------------------------------------------------
(* State machine.                                                          *)

NoOutcome == [kind |-> "none"]

NoOp == [name |-> "none"]

\* the operation in progress: its name, the Account it is called on and the
\* arguments the caller supplied
Op(name, self, args) == [name |-> name, self |-> self, args |-> args]

NoResp == [status |-> 0, body |-> NotJSON]

NoCall == [method |-> "", path |-> "", data |-> None]

NoAccess == [key |-> ""]

ListOps == {"list_accounts", "list_orders", "list_positions"}

SingleOps == {"create_order", "get_order", "get_order_by_client_order_id",
              "get_position"}

Range(q) == {q[i] : i \in DOMAIN q}

\* the entities the last call handed to the caller
ResultEntities ==
    IF result.kind # "return" THEN {}
    ELSE IF op.name \in ListOps THEN Range(result.value)
    ELSE IF op.name \in SingleOps THEN {result.value}
    ELSE {}

\* the caller is between calls: it holds its accounts and no result
Idle == op.name = "none"

Init ==
    /\ _key \in ApiKeys
    /\ _base_url = DefaultBaseUrl
    /\ accounts = <<>>
    /\ op = NoOp
    /\ call = NoCall
    /\ wire = <<>>
    /\ response = NoResp
    /\ transport = NoOutcome
    /\ result = NoOutcome
    /\ access = NoAccess

\* the keyword arguments a caller passed: an argument left out is not there
Supplied(kw) == [a \in {b \in DOMAIN kw : kw[b] # None} |-> kw[a]]

\* the caller's view after an operation ran to its return or its exception
Apply(o, d) ==
    /\ op' = o
    /\ call' = d.call
    /\ wire' = d.sent
    /\ response' = d.resp
    /\ transport' = d.transport
    /\ result' = d.result
    /\ access' = NoAccess
    /\ UNCHANGED <<_key, _base_url>>

Request ==
    /\ Idle
    /\ \E method \in Methods, path \in Paths, data \in DataValues, answer \in Responses :
        LET r == _request(_key, _base_url, method, path, data, answer) IN
        /\ Apply(Op("_request", None, <<method, path, data>>), Done(r, r.out))
        /\ UNCHANGED accounts

Get ==
    /\ Idle
    /\ \E path \in Paths, data \in DataValues, answer \in Responses :
        LET r == API_get(_key, _base_url, path, data, answer) IN
        /\ Apply(Op("get", None, <<path, data>>), Done(r, r.out))
        /\ UNCHANGED accounts

Post ==
    /\ Idle
    /\ \E path \in Paths, data \in DataValues, answer \in Responses :
        LET r == API_post(_key, _base_url, path, data, answer) IN
        /\ Apply(Op("post", None, <<path, data>>), Done(r, r.out))
        /\ UNCHANGED accounts

Patch ==
    /\ Idle
    /\ \E path \in Paths, data \in DataValues, answer \in Responses :
        LET r == API_patch(_key, _base_url, path, data, answer) IN
        /\ Apply(Op("patch", None, <<path, data>>), Done(r, r.out))
        /\ UNCHANGED accounts

Delete ==
    /\ Idle
    /\ \E path \in Paths, data \in DataValues, answer \in Responses :
        LET r == API_delete(_key, _base_url, path, data, answer) IN
        /\ Apply(Op("delete", None, <<path, data>>), Done(r, r.out))
        /\ UNCHANGED accounts

ListAccounts ==
    /\ Idle
    /\ \E answer \in Responses :
        LET d == list_accounts(_key, _base_url, answer) IN
        /\ Apply(Op("list_accounts", None, <<>>), d)
        /\ accounts' = IF d.result.kind = "return" THEN d.result.value ELSE accounts

ListOrders ==
    /\ Idle
    /\ \E i \in DOMAIN accounts, answer \in Responses :
        /\ Apply(Op("list_orders", accounts[i], <<>>),
                 list_orders(accounts[i], _key, _base_url, answer))
        /\ UNCHANGED accounts

CreateOrder ==
    /\ Idle
    /\ \E i \in DOMAIN accounts, answer \in Responses,
       limit_price \in Optional(Prices), stop_price \in Optional(Prices),
       client_order_id \in Optional(ClientOrderIds), assert_id \in AssetIds :
        /\ Apply(Op("create_order", accounts[i],
                    Supplied([assert_id |-> assert_id, shares |-> JNum(1),
                              side |-> JStr("buy"), type |-> JStr("limit"),
                              timeinforce |-> JStr("day"),
                              limit_price |-> limit_price,
                              stop_price |-> stop_price,
                              client_order_id |-> client_order_id])),
                 create_order(accounts[i], _key, _base_url, assert_id, JNum(1),
                              JStr("buy"), JStr("limit"), JStr("day"),
                              limit_price, stop_price, client_order_id, answer))
        /\ UNCHANGED accounts

GetOrder ==
    /\ Idle
    /\ \E i \in DOMAIN accounts, order_id \in OrderIds, answer \in Responses :
        /\ Apply(Op("get_order", accounts[i], <<order_id>>),
                 get_order(accounts[i], _key, _base_url, order_id, answer))
        /\ UNCHANGED accounts

GetOrderByClientOrderId ==
    /\ Idle
    /\ \E i \in DOMAIN accounts, client_order_id \in ClientOrderIds,
       answer \in Responses :
        /\ Apply(Op("get_order_by_client_order_id", accounts[i],
                    <<client_order_id>>),
                 get_order_by_client_order_id(accounts[i], _key, _base_url,
                                              client_order_id, answer))
        /\ UNCHANGED accounts

DeleteOrder ==
    /\ Idle
    /\ \E i \in DOMAIN accounts, order_id \in OrderIds, answer \in Responses :
        /\ Apply(Op("delete_order", accounts[i], <<order_id>>),
                 delete_order(accounts[i], _key, _base_url, order_id, answer))
        /\ UNCHANGED accounts

ListPositions ==
    /\ Idle
    /\ \E i \in DOMAIN accounts, answer \in Responses :
        /\ Apply(Op("list_positions", accounts[i], <<>>),
                 list_positions(accounts[i], _key, _base_url, answer))
        /\ UNCHANGED accounts

GetPosition ==
    /\ Idle
    /\ \E i \in DOMAIN accounts, asset_id \in AssetIds, answer \in Responses :
        /\ Apply(Op("get_position", accounts[i], <<asset_id>>),
                 get_position(accounts[i], _key, _base_url, asset_id, answer))
        /\ UNCHANGED accounts

\* the caller reads a field of an entity the last call returned
GetAttr ==
    \E self \in ResultEntities, name \in FieldNames :
        /\ access' = [key |-> name, self |-> self, out |-> __getattr__(self, name)]
        /\ UNCHANGED <<_key, _base_url, accounts, op, call, wire, response, transport, result>>

\* the caller, not the library: it lets go of the last result and goes on to
\* its next call
Discard ==
    /\ ~Idle
    /\ op' = NoOp
    /\ call' = NoCall
    /\ wire' = <<>>
    /\ response' = NoResp
    /\ transport' = NoOutcome
    /\ result' = NoOutcome
    /\ access' = NoAccess
    /\ UNCHANGED <<_key, _base_url, accounts>>

Next ==
    \/ Request
    \/ Get
    \/ Post
    \/ Patch
    \/ Delete
    \/ ListAccounts
    \/ ListOrders
    \/ CreateOrder
    \/ GetOrder
    \/ GetOrderByClientOrderId
    \/ DeleteOrder
    \/ ListPositions
    \/ GetPosition
    \/ GetAttr
    \/ Discard

Spec == Init /\ [][Next]_vars

----------------------------------------------------------------------------
(* Properties of the transport.                                            *)

\* the status is outside the success range: the server reports a failure
HTTPFailure == ~Idle /\ response.status \in 400..599

\* the body decodes as a JSON object that has the field
HasField(body, f) == body.t = "obj" /\ f \in DOMAIN body.v

IsAPIError(out) == out.kind = "raise" /\ out.exc.type = "APIError"

IsHTTPError(out) ==
    out.kind = "raise" /\ out.exc = HTTPError(response.status)

\* C1: a failure status whose body is JSON without a `code` field makes the
\* request fail with the HTTP failure itself; the decoded error body is never
\* returned and no domain error is raised.
C1_NoCodeIsTransportError ==
    (HTTPFailure /\ response.body.t = "obj" /\ ~HasField(response.body, "code"))
        => IsHTTPError(transport)

\* C2: a failure status whose body is a JSON object with a `code` field makes
\* the request fail with a domain error that carries the body's code and has
\* the body's message as description; nothing is returned.
C2_CodeIsDomainError ==
    (HTTPFailure /\ HasField(response.body, "code"))
        => /\ IsAPIError(transport)
           /\ code(transport.exc) = Return(response.body.v["code"])
           /\ HasField(response.body, "message")
                => transport.exc.args = response.body.v["message"]

\* C3: a failure status whose body is not JSON makes the request fail with
\* the HTTP failure, never with a domain error or a returned value.
C3_NonJSONIsTransportError ==
    (HTTPFailure /\ response.body = NotJSON) => IsHTTPError(transport)

GetSpellings == {"GET", "get", "Get"}

BodySpellings == {"POST", "post", "PATCH", "DELETE", "delete"}

\* C4: whatever the letter case of the method, a GET carries data only as
\* query parameters and has no body, a POST, PATCH or DELETE carries data only
\* as the JSON body and has no query parameters; data is never in both places.
C4_DataInOnePlace ==
    ~Idle =>
        /\ Len(wire) >= 1
        /\ \A i \in DOMAIN wire :
              /\ call.method \in GetSpellings
                    => wire[i].query = call.data /\ wire[i].body = None
              /\ call.method \in BodySpellings
                    => wire[i].body = call.data /\ wire[i].query = None
              /\ call.data # None
                    => ~(wire[i].query = call.data /\ wire[i].body = call.data)

\* a lower-case get with data went out with the data in the query only
C4_Witness ==
    /\ op.name = "_request"
    /\ call.method = "get"
    /\ call.data # None
    /\ wire[1].query = call.data
    /\ wire[1].body = None

----------------------------------------------------------------------------
(* Properties of field access.                                             *)

\* the caller has read a field of an entity whose record is a JSON object
Accessed == access.key # "" /\ access.self.obj.t = "obj"

\* a string that starts YYYY-MM-DDT
LooksLikeTimestamp(val) ==
    /\ val.t = "str"
    /\ Len(val.v) >= 11
    /\ \A i \in {1, 2, 3, 4, 6, 7, 9, 10} : Char(val.v, i) \in Digits
    /\ Char(val.v, 5) = "-" /\ Char(val.v, 8) = "-" /\ Char(val.v, 11) = "T"

\* C5: for a field that is present, an `_at` name with a string value that
\* starts YYYY-MM-DDT reads as the ISO-8601 parse of the string; every other
\* present field (another name, or an `_at` field holding a non-matching
\* string, a number, a boolean, null or a nested structure) reads as the raw
\* value and the access does not fail.
C5_TimestampOrRaw ==
    (Accessed /\ access.key \in DOMAIN access.self.obj.v) =>
        LET val == access.self.obj.v[access.key] IN
        IF EndsWith(access.key, "_at") /\ LooksLikeTimestamp(val)
        THEN access.out = parse(val.v)
        ELSE access.out = Return(val)

\* C6: reading a field the record does not have fails with an
\* attribute-not-found error that names the field; no value comes back and
\* the entity the caller holds still has the record it had.
C6_AbsentFieldIsAttributeError ==
    (Accessed /\ access.key \notin DOMAIN access.self.obj.v) =>
        /\ access.out = Raise(AttributeError(access.key))
        /\ access.self \in ResultEntities

\* an Order without a `symbol` field was asked for it
C6_Witness ==
    /\ Accessed
    /\ access.self.cls = "Order"
    /\ access.key = "symbol"
    /\ "symbol" \notin DOMAIN access.self.obj.v
    /\ access.out = Raise(AttributeError("symbol"))

----------------------------------------------------------------------------
(* Properties of the resource client.                                      *)

AccountOps == {"list_orders", "create_order", "get_order",
               "get_order_by_client_order_id", "delete_order",
               "list_positions", "get_position"}

ResourceOps == AccountOps \cup {"list_accounts"}

\* the id of the record the Account was built from, as path text
RecordId(acct) == acct.obj.v["id"].v

\* the operations table: method and path of each Account operation
TableMethod(o) ==
    CASE o.name = "create_order" -> "POST"
      [] o.name = "delete_order" -> "DELETE"
      [] OTHER -> "GET"

TablePath(o) ==
    LET scoped == "/api/v1/accounts/" \o RecordId(o.self) IN
    CASE o.name = "list_orders" -> scoped \o "/orders"
      [] o.name = "create_order" -> scoped \o "/orders"
      [] o.name = "get_order_by_client_order_id" -> scoped \o "/orders"
      [] o.name = "delete_order" -> scoped \o "/orders/" \o o.args[1].v
      [] o.name = "list_positions" -> scoped \o "/positions"
      [] o.name = "get_position" -> scoped \o "/positions/" \o o.args[1].v
      [] o.name = "get_order" ->
           "/api/v1/" \o RecordId(o.self) \o "/orders/" \o o.args[1].v

\* C7: every Account operation sends the method and path of the operations
\* table: the scoped path /api/v1/accounts/{account_id}{subpath} with the id
\* of the record the Account was built from, except get_order, which sends
\* GET /api/v1/{account_id}/orders/{order_id} without the accounts segment.
C7_OperationPaths ==
    op.name \in AccountOps =>
        /\ call.method = TableMethod(op)
        /\ call.path = TablePath(op)
        /\ \A i \in DOMAIN wire :
              wire[i].method = call.method /\ wire[i].url = _base_url \o call.path

\* list_orders on the account acct123 went to /api/v1/accounts/acct123/orders
C7_Witness ==
    /\ op.name = "list_orders"
    /\ op.self.account_id = JStr("acct123")
    /\ call.path = "/api/v1/accounts/acct123/orders"
    /\ Len(wire) = 1

OrderFields == {"assert_id", "shares", "side", "type", "timeinforce",
                "limit_price", "stop_price", "client_order_id"}

\* C8: the body of create_order's POST has every order field; an optional
\* field the caller left out is there with the value null, and a supplied
\* field has the caller's value.
C8_OrderBodyHasEveryField ==
    op.name = "create_order" =>
        \A i \in DOMAIN wire :
            /\ wire[i].method = "POST"
            /\ wire[i].body.t = "obj"
            /\ DOMAIN wire[i].body.v = OrderFields
            /\ \A f \in OrderFields :
                  wire[i].body.v[f] =
                      IF f \in DOMAIN op.args THEN op.args[f] ELSE JNull

\* an order without limit and stop price was sent with both as null
C8_Witness ==
    /\ op.name = "create_order"
    /\ "limit_price" \notin DOMAIN op.args
    /\ "stop_price" \notin DOMAIN op.args
    /\ "client_order_id" \in DOMAIN op.args
    /\ Len(wire) = 1
    /\ wire[1].body.v["limit_price"] = JNull
    /\ wire[1].body.v["stop_price"] = JNull
    /\ wire[1].body.v["client_order_id"] = JStr("c1")

\* a success status with an array of records that each have an id
ListsAccountRecords ==
    /\ op.name = "list_accounts"
    /\ response.status \notin 400..599
    /\ response.body.t = "arr"
    /\ \A i \in DOMAIN response.body.v : HasField(response.body.v[i], "id")

C10_OneRequestErrorsPropagate ==
    op.name \in ResourceOps =>
        /\ Len(wire) = 1
        /\ transport.kind = "raise" =>
              result = transport /\ ResultEntities = {}

\* create_order got a domain error from its single request and raised it
C10_Witness ==
    /\ op.name = "create_order"
    /\ Len(wire) = 1
    /\ IsAPIError(transport)
    /\ result = transport

====
